---------------------------- MODULE Spec2Model ----------------------------
(***************************************************************************)
(* A model of deque.h: a deque over a singly-linked chain of heap nodes.   *)
(* Every macro of the header is an operator on a machine state             *)
(*     s = [dq, mem, fault, freed, ret]                                    *)
(* where dq is the deque structure the macro is applied to, mem the heap   *)
(* of nodes, fault the way the execution ended when it left defined        *)
(* behaviour, freed the log of the NODE_FREE calls of the running          *)
(* operation and ret the value the macro yields to its caller.             *)
(***************************************************************************)
EXTENDS Integers, Sequences, FiniteSets

\* ------------------------------------------------------------- bounds
\* Number of node addresses malloc can hand out.
MaxNodes == 3
\* Element values are 0..MaxValue.
MaxValue == 2

\* ------------------------------------------------------------- values
NULL == 0
Nodes == 1..MaxNodes
Pointers == Nodes \cup {NULL}
Values == 0..MaxValue
\* The two deque objects the calling program declares.
Deques == {"A", "B"}
\* An indeterminate field: a node malloc has just returned or free has released.
Undef == -1
\* What a statement macro (do { ... } while (0)) yields: nothing.
Void == -2
\* size_t arithmetic wraps; 16 bits is the narrowest size_t C allows.
SIZE_MAX == 65535
SizeT(x) == x % (SIZE_MAX + 1)

VARIABLES
  deque,    \* Deques -> [first, last, size]            (STRUCT_DEQUE)
  mem,      \* Nodes -> [alloc, data, next]             (STRUCT_NODE, malloc'ed or not)
  fault,    \* "none", or how the program left defined behaviour
  pc,       \* "idle" between operations, "free" inside DEQUE_FREE's loop (on op.d)
  held,     \* the node the caller detached with DEQUE_POP_NODE and still holds
  op,       \* the last operation called: [name, d, nd]; nd: its call site is
            \* compiled under NDEBUG, where assert() expands to nothing
  chain0,   \* the chain of the deque when DEQUE_FREE was called on it
  freed,    \* the nodes op has passed to NODE_FREE, in order
  ret,      \* what op yielded to the caller
  abs,      \* Deques -> the abstract sequence of values
  script,   \* scripted runs: the insertions to perform
  phase,    \* scripted runs: "free" (unscripted), "fill" or "drain"
  out,      \* scripted runs: the values read by DEQUE_HEAD before each DEQUE_POP
  calls     \* scripted runs: per node, how often NODE_ALLOC returned it and how
            \* often it was passed to NODE_FREE

vars == <<deque, mem, fault, pc, held, op, chain0, freed, ret, abs,
          script, phase, out, calls>>

\* ------------------------------------------------------------- the heap
FreeCell == [alloc |-> FALSE, data |-> Undef, next |-> Undef]

\* p points to a live node.
Valid(m, p) == p \in Nodes /\ m[p].alloc

\* An execution that has stopped: assert() aborted it, or an access trapped.
Halted(s) == s.fault \in {"assert", "segv"}

\* How undefined behaviour resolves: the access traps, or it goes on and a read
\* yields some pointer (junk) or some value (jdata).
UBOutcomes == [trap : BOOLEAN, junk : Pointers, jdata : Values]
\* The outcomes that differ for a faulting store (nothing is read), for a
\* faulting load of a next pointer and for a faulting load of data.
StoreOutcomes == {u \in UBOutcomes : u.junk = NULL /\ u.jdata = 0}
NextOutcomes == {u \in UBOutcomes : u.jdata = 0}
DataOutcomes == {u \in UBOutcomes : u.junk = NULL}
\* Passed where the caller keeps to the contract.
NoUB == [trap |-> TRUE, junk |-> NULL, jdata |-> 0]

\* An access through p: faults when p is no live node.
Touch(s, p, u) ==
  IF Halted(s) \/ Valid(s.mem, p) THEN s
  ELSE [s EXCEPT !.fault = IF u.trap THEN "segv" ELSE "ub"]

NODE_ALLOC(m, r) ==
  IF r = NULL THEN m
  ELSE [m EXCEPT ![r] = [alloc |-> TRUE, data |-> Undef, next |-> Undef]]

NODE_FREE(s, node, u) ==
  IF Halted(s) THEN s
  ELSE IF node = NULL THEN s
  ELSE IF ~Valid(s.mem, node)
       THEN [s EXCEPT !.fault = IF u.trap THEN "segv" ELSE "ub",
                      !.freed = Append(@, node)]
  ELSE [s EXCEPT !.mem[node] = FreeCell, !.freed = Append(@, node)]

NODE_NEXT(s, node, u) == IF Valid(s.mem, node) THEN s.mem[node].next ELSE u.junk

NODE_DATA(s, node, u) == IF Valid(s.mem, node) THEN s.mem[node].data ELSE u.jdata

\* NODE_NEXT(node) = v
SetNext(s, node, v, u) ==
  LET t == Touch(s, node, u)
  IN IF Halted(s) \/ ~Valid(s.mem, node) THEN t
     ELSE [t EXCEPT !.mem[node].next = v]

\* NODE_DATA(node) = v
SetData(s, node, v, u) ==
  LET t == Touch(s, node, u)
  IN IF Halted(s) \/ ~Valid(s.mem, node) THEN t
     ELSE [t EXCEPT !.mem[node].data = v]

\* The nodes met from p along next, as the loop
\*   for (node = DEQUE_FIRST(deque); node != NULL; node = NODE_NEXT(node))
\* meets them; fuel cuts a walk that does not end.
RECURSIVE Walk(_, _, _)
Walk(m, p, fuel) ==
  IF fuel = 0 \/ ~Valid(m, p) THEN <<>>
  ELSE <<p>> \o Walk(m, m[p].next, fuel - 1)

\* The pointer reached from p by following next k times (Undef past a dead node).
RECURSIVE Follow(_, _, _)
Follow(m, p, k) ==
  IF k = 0 THEN p
  ELSE IF ~Valid(m, p) THEN Undef
  ELSE Follow(m, m[p].next, k - 1)

\* ------------------------------------------------------------- the macros
DEQUE_FIRST(s) == s.dq.first

DEQUE_LAST(s) == s.dq.last

DEQUE_SIZE(s) == s.dq.size

\* An expression macro: yields the data of the first node.
DEQUE_HEAD(s, u) == NODE_DATA(s, DEQUE_FIRST(s), u)

DEQUE_TAIL(s, u) == NODE_DATA(s, DEQUE_LAST(s), u)

\* Reading DEQUE_HEAD / DEQUE_TAIL as a call: the access and the value yielded.
ReadHead(s, u) ==
  LET t == Touch(s, DEQUE_FIRST(s), u)
  IN IF Halted(t) THEN t ELSE [t EXCEPT !.ret = DEQUE_HEAD(s, u)]

ReadTail(s, u) ==
  LET t == Touch(s, DEQUE_LAST(s), u)
  IN IF Halted(t) THEN t ELSE [t EXCEPT !.ret = DEQUE_TAIL(s, u)]

DEQUE_INIT(s) ==
  IF Halted(s) THEN s
  ELSE [s EXCEPT !.dq = [first |-> NULL, last |-> NULL, size |-> 0]]

\* { NULL, NULL, 0 }
DEQUE_DEFAULT == [first |-> NULL, last |-> NULL, size |-> 0]

\* DEQUE_PUSH_NODE that inserts behind the first node instead of before it.
DEQUE_PUSH_NODE_second(s, node, u) ==
  LET f == DEQUE_FIRST(s)
      s1 == SetNext(s, node, NODE_NEXT(s, f, u), u)
      s2 == IF f = NULL
            THEN [s1 EXCEPT !.dq.first = node, !.dq.last = node]
            ELSE SetNext(IF DEQUE_LAST(s) = f THEN [s1 EXCEPT !.dq.last = node] ELSE s1,
                         f, node, u)
  IN IF Halted(s1) THEN s1
     ELSE [s2 EXCEPT !.dq.size = SizeT(@ + 1)]

\* DEQUE_PUSH_NODE without the increment of size.
DEQUE_PUSH_NODE_no_inc(s, node, u) ==
  LET s1 == SetNext(s, node, DEQUE_FIRST(s), u)
      s2 == IF DEQUE_FIRST(s) = NULL THEN [s1 EXCEPT !.dq.last = node] ELSE s1
  IN IF Halted(s1) THEN s1
     ELSE [s2 EXCEPT !.dq.first = node]

\* DEQUE_PUSH_NODE that stores to the node's next only when the deque is empty.
DEQUE_PUSH_NODE_keep_next(s, node, u) ==
  LET s1 == IF DEQUE_FIRST(s) = NULL
            THEN [SetNext(s, node, NULL, u) EXCEPT !.dq.last = node]
            ELSE Touch(s, node, u)
  IN IF Halted(s1) THEN s1
     ELSE [s1 EXCEPT !.dq.first = node, !.dq.size = SizeT(@ + 1)]

\* DEQUE_PUSH_NODE that makes the inserted node last whatever the deque holds.
DEQUE_PUSH_NODE_moves_last(s, node, u) ==
  LET s1 == SetNext(s, node, DEQUE_FIRST(s), u)
  IN IF Halted(s1) THEN s1
     ELSE [s1 EXCEPT !.dq.last = node, !.dq.first = node, !.dq.size = SizeT(@ + 1)]

DEQUE_PUSH_NODE(s, node, u) ==
  LET s1 == SetNext(s, node, DEQUE_FIRST(s), u)
      s2 == IF DEQUE_FIRST(s) = NULL THEN [s1 EXCEPT !.dq.last = node] ELSE s1
  IN IF Halted(s1) THEN s1
     ELSE [s2 EXCEPT !.dq.first = node, !.dq.size = SizeT(@ + 1)]

\* DEQUE_PUSH without the store of the value into the new node.
DEQUE_PUSH_no_data(s, value, r, u) ==
  LET s0 == [s EXCEPT !.mem = NODE_ALLOC(s.mem, r)]
      s1 == Touch(s0, r, u)
  IN IF Halted(s1) THEN s1 ELSE DEQUE_PUSH_NODE(s1, r, u)

\* r is what malloc returns.
DEQUE_PUSH(s, value, r, u) ==
  LET s0 == [s EXCEPT !.mem = NODE_ALLOC(s.mem, r)]
      s1 == SetData(s0, r, value, u)
  IN IF Halted(s1) THEN s1 ELSE DEQUE_PUSH_NODE(s1, r, u)

\* DEQUE_APPEND_NODE without the link from the old last node to the new one.
DEQUE_APPEND_NODE_unlinked(s, node, u) ==
  LET s1 == SetNext(s, node, NULL, u)
      s2 == IF DEQUE_FIRST(s1) = NULL THEN [s1 EXCEPT !.dq.first = node] ELSE s1
  IN IF Halted(s1) THEN s1
     ELSE [s2 EXCEPT !.dq.last = node, !.dq.size = SizeT(@ + 1)]

\* DEQUE_APPEND_NODE that links the inserted node back to the first node.
DEQUE_APPEND_NODE_circular(s, node, u) ==
  LET s1 == SetNext(s, node, IF DEQUE_FIRST(s) = NULL THEN node ELSE DEQUE_FIRST(s), u)
      s2 == IF DEQUE_FIRST(s1) = NULL
            THEN [s1 EXCEPT !.dq.first = node]
            ELSE SetNext(s1, DEQUE_LAST(s1), node, u)
  IN IF Halted(s1) THEN s1
     ELSE IF Halted(s2) THEN s2
     ELSE [s2 EXCEPT !.dq.last = node, !.dq.size = SizeT(@ + 1)]

\* DEQUE_APPEND_NODE without the store of NULL to the inserted node's next.
DEQUE_APPEND_NODE_no_null(s, node, u) ==
  LET s1 == Touch(s, node, u)
      s2 == IF DEQUE_FIRST(s1) = NULL
            THEN [s1 EXCEPT !.dq.first = node]
            ELSE SetNext(s1, DEQUE_LAST(s1), node, u)
  IN IF Halted(s1) THEN s1
     ELSE IF Halted(s2) THEN s2
     ELSE [s2 EXCEPT !.dq.last = node, !.dq.size = SizeT(@ + 1)]

DEQUE_APPEND_NODE(s, node, u) ==
  LET s1 == SetNext(s, node, NULL, u)
      s2 == IF DEQUE_FIRST(s1) = NULL
            THEN [s1 EXCEPT !.dq.first = node]
            ELSE SetNext(s1, DEQUE_LAST(s1), node, u)
  IN IF Halted(s1) THEN s1
     ELSE IF Halted(s2) THEN s2
     ELSE [s2 EXCEPT !.dq.last = node, !.dq.size = SizeT(@ + 1)]

\* DEQUE_APPEND that inserts with DEQUE_PUSH_NODE.
DEQUE_APPEND_front(s, value, r, u) ==
  LET s0 == [s EXCEPT !.mem = NODE_ALLOC(s.mem, r)]
      s1 == SetData(s0, r, value, u)
  IN IF Halted(s1) THEN s1 ELSE DEQUE_PUSH_NODE(s1, r, u)

DEQUE_APPEND(s, value, r, u) ==
  LET s0 == [s EXCEPT !.mem = NODE_ALLOC(s.mem, r)]
      s1 == SetData(s0, r, value, u)
  IN IF Halted(s1) THEN s1 ELSE DEQUE_APPEND_NODE(s1, r, u)

\* DEQUE_POP_NODE without the decrement of size.
DEQUE_POP_NODE_no_dec(s, nd, u) ==
  IF Halted(s) THEN s
  ELSE IF ~nd /\ DEQUE_FIRST(s) = NULL THEN [s EXCEPT !.fault = "assert"]
  ELSE LET s1 == Touch(s, DEQUE_FIRST(s), u)
           nx == NODE_NEXT(s, DEQUE_FIRST(s), u)
           s2 == [s1 EXCEPT !.dq.first = nx]
           s3 == IF nx = NULL THEN [s2 EXCEPT !.dq.last = NULL] ELSE s2
       IN IF Halted(s1) THEN s1 ELSE s3

\* DEQUE_POP_NODE without its assert.
DEQUE_POP_NODE_unchecked(s, nd, u) ==
  IF Halted(s) THEN s
  ELSE LET s1 == Touch(s, DEQUE_FIRST(s), u)
           nx == NODE_NEXT(s, DEQUE_FIRST(s), u)
           s2 == [s1 EXCEPT !.dq.first = nx]
           s3 == IF nx = NULL THEN [s2 EXCEPT !.dq.last = NULL] ELSE s2
       IN IF Halted(s1) THEN s1
          ELSE [s3 EXCEPT !.dq.size = SizeT(@ - 1)]

\* DEQUE_POP_NODE without the reset of last when the chain empties.
DEQUE_POP_NODE_stale_last(s, nd, u) ==
  IF Halted(s) THEN s
  ELSE IF ~nd /\ DEQUE_FIRST(s) = NULL THEN [s EXCEPT !.fault = "assert"]
  ELSE LET s1 == Touch(s, DEQUE_FIRST(s), u)
           nx == NODE_NEXT(s, DEQUE_FIRST(s), u)
           s2 == [s1 EXCEPT !.dq.first = nx]
       IN IF Halted(s1) THEN s1
          ELSE [s2 EXCEPT !.dq.size = SizeT(@ - 1)]

\* nd: the call site is compiled under NDEBUG, so the assert expands to nothing.
DEQUE_POP_NODE(s, nd, u) ==
  IF Halted(s) THEN s
  ELSE IF ~nd /\ DEQUE_FIRST(s) = NULL THEN [s EXCEPT !.fault = "assert"]
  ELSE LET s1 == Touch(s, DEQUE_FIRST(s), u)
           nx == NODE_NEXT(s, DEQUE_FIRST(s), u)
           s2 == [s1 EXCEPT !.dq.first = nx]
           s3 == IF nx = NULL THEN [s2 EXCEPT !.dq.last = NULL] ELSE s2
       IN IF Halted(s1) THEN s1
          ELSE [s3 EXCEPT !.dq.size = SizeT(@ - 1)]

\* DEQUE_POP without the NODE_FREE of the detached node.
DEQUE_POP_leak(s, nd, u) == DEQUE_POP_NODE(s, nd, u)

\* DEQUE_POP with NODE_FREE applied to the new first node, not the detached one.
DEQUE_POP_free_new_first(s, nd, u) ==
  LET s1 == DEQUE_POP_NODE(s, nd, u)
  IN NODE_FREE(s1, DEQUE_FIRST(s1), u)

DEQUE_POP(s, nd, u) ==
  LET prev_first == DEQUE_FIRST(s)
      s1 == DEQUE_POP_NODE(s, nd, u)
  IN NODE_FREE(s1, prev_first, u)

\* DEQUE_CLEAR that releases the node that was first.
DEQUE_CLEAR_release(s) == NODE_FREE(DEQUE_INIT(s), DEQUE_FIRST(s), NoUB)

DEQUE_CLEAR(s) == DEQUE_INIT(s)

\* The test of DEQUE_FREE's while loop.
DEQUE_FREE_TEST(s) == DEQUE_FIRST(s) # NULL

\* The loop body with NODE_FREE applied to the new first node, not the old one.
DEQUE_FREE_BODY_wrong_node(s, u) ==
  LET s1 == Touch(s, DEQUE_FIRST(s), u)
      s2 == [s1 EXCEPT !.dq.first = NODE_NEXT(s, DEQUE_FIRST(s), u)]
  IN IF Halted(s1) THEN s1 ELSE NODE_FREE(s2, DEQUE_FIRST(s2), u)

\* The loop body that reads the first node and neither advances first nor
\* frees the node.
DEQUE_FREE_BODY_spin(s, u) == Touch(s, DEQUE_FIRST(s), u)

\* The loop body that frees the first node before it reads its next.
DEQUE_FREE_BODY_free_first(s, u) ==
  LET s1 == NODE_FREE(s, DEQUE_FIRST(s), u)
      s2 == Touch(s1, DEQUE_FIRST(s), u)
  IN IF Halted(s2) THEN s2
     ELSE [s2 EXCEPT !.dq.first = NODE_NEXT(s1, DEQUE_FIRST(s), u)]

\* One pass through the body of DEQUE_FREE's loop.
DEQUE_FREE_BODY(s, u) ==
  LET prev_first == DEQUE_FIRST(s)
      s1 == Touch(s, DEQUE_FIRST(s), u)
      s2 == [s1 EXCEPT !.dq.first = NODE_NEXT(s, DEQUE_FIRST(s), u)]
  IN IF Halted(s1) THEN s1 ELSE NODE_FREE(s2, prev_first, u)

\* The assignments after DEQUE_FREE's loop, without the reset of size.
DEQUE_FREE_EXIT_stale_size(s) ==
  IF Halted(s) THEN s
  ELSE [s EXCEPT !.dq.last = NULL]

\* The two assignments after DEQUE_FREE's loop.
DEQUE_FREE_EXIT(s) ==
  IF Halted(s) THEN s
  ELSE [s EXCEPT !.dq.last = NULL, !.dq.size = 0]

\* ------------------------------------------------------------- the program
\* The machine state a macro applied to deque d starts from.
Mk(d) == [dq |-> deque[d], mem |-> mem, fault |-> "none", freed |-> <<>>, ret |-> Void]

\* The nodes of d's chain, in order.
Chain(d) == Walk(mem, deque[d].first, MaxNodes + 1)

\* The abstract sequence after a removal at the front.
AbsPop(a) == IF a = <<>> THEN a ELSE Tail(a)

\* The caller is between two operations of an unscripted run.
Ready == fault = "none" /\ pc = "idle" /\ phase = "free"

\* The operation `name` on d, its call site compiled with NDEBUG = nd, ran from
\* Mk(d) to t; a is d's abstract sequence now.
Commit(d, name, nd, t, a) ==
  /\ deque' = [deque EXCEPT ![d] = t.dq]
  /\ mem' = t.mem
  /\ fault' = t.fault
  /\ freed' = t.freed
  /\ ret' = t.ret
  /\ op' = [name |-> name, d |-> d, nd |-> nd]
  /\ chain0' = <<>>
  /\ abs' = [abs EXCEPT ![d] = a]

\* No NODE_ALLOC and no NODE_FREE call has been made.
NoCalls == [alloc |-> [n \in Nodes |-> 0], free |-> [n \in Nodes |-> 0]]

\* The addresses malloc may return when it succeeds.
Fresh == {n \in Nodes : ~mem[n].alloc}

Init ==
  /\ deque = [d \in Deques |-> DEQUE_DEFAULT]
  /\ mem = [n \in Nodes |-> FreeCell]
  /\ fault = "none"
  /\ pc = "idle"
  /\ held = NULL
  /\ op = [name |-> "default", d |-> "A", nd |-> FALSE]
  /\ chain0 = <<>>
  /\ freed = <<>>
  /\ ret = Void
  /\ abs = [d \in Deques |-> <<>>]
  /\ script = <<>>
  /\ phase = "free"
  /\ out = <<>>
  /\ calls = NoCalls

ReInit(d) ==
  /\ Ready
  /\ Commit(d, "init", FALSE, DEQUE_INIT(Mk(d)), <<>>)
  /\ UNCHANGED <<pc, held, script, phase, out, calls>>

Clear(d) ==
  /\ Ready
  /\ Commit(d, "clear", FALSE, DEQUE_CLEAR(Mk(d)), <<>>)
  /\ UNCHANGED <<pc, held, script, phase, out, calls>>

Push(d, v) ==
  /\ Ready
  /\ \E r \in Fresh : Commit(d, "push", FALSE, DEQUE_PUSH(Mk(d), v, r, NoUB), <<v>> \o abs[d])
  /\ UNCHANGED <<pc, held, script, phase, out, calls>>

AppendBack(d, v) ==
  /\ Ready
  /\ \E r \in Fresh : Commit(d, "append", FALSE, DEQUE_APPEND(Mk(d), v, r, NoUB), Append(abs[d], v))
  /\ UNCHANGED <<pc, held, script, phase, out, calls>>

\* The caller pops only a deque whose DEQUE_SIZE is not 0.
Pop(d) ==
  /\ Ready
  /\ deque[d].size > 0
  /\ \E nd \in BOOLEAN :
       Commit(d, "pop", nd, DEQUE_POP(Mk(d), nd, NoUB), AbsPop(abs[d]))
  /\ UNCHANGED <<pc, held, script, phase, out, calls>>

\* n = DEQUE_FIRST(d); DEQUE_POP_NODE(d): the caller keeps the detached node n.
PopNode(d) ==
  /\ Ready
  /\ deque[d].size > 0
  /\ held = NULL
  /\ held' = deque[d].first
  /\ \E nd \in BOOLEAN :
       Commit(d, "pop_node", nd, DEQUE_POP_NODE(Mk(d), nd, NoUB), AbsPop(abs[d]))
  /\ UNCHANGED <<pc, script, phase, out, calls>>

\* DEQUE_PUSH_NODE(d, n) with the node the caller holds.
PushNode(d) ==
  /\ Ready
  /\ held # NULL
  /\ held' = NULL
  /\ Commit(d, "push_node", FALSE, DEQUE_PUSH_NODE(Mk(d), held, NoUB),
            <<NODE_DATA(Mk(d), held, NoUB)>> \o abs[d])
  /\ UNCHANGED <<pc, script, phase, out, calls>>

AppendNode(d) ==
  /\ Ready
  /\ held # NULL
  /\ held' = NULL
  /\ Commit(d, "append_node", FALSE, DEQUE_APPEND_NODE(Mk(d), held, NoUB),
            Append(abs[d], NODE_DATA(Mk(d), held, NoUB)))
  /\ UNCHANGED <<pc, script, phase, out, calls>>

PeekHead(d) ==
  /\ Ready
  /\ deque[d].size > 0
  /\ Commit(d, "head", FALSE, ReadHead(Mk(d), NoUB), abs[d])
  /\ UNCHANGED <<pc, held, script, phase, out, calls>>

PeekTail(d) ==
  /\ Ready
  /\ deque[d].size > 0
  /\ Commit(d, "tail", FALSE, ReadTail(Mk(d), NoUB), abs[d])
  /\ UNCHANGED <<pc, held, script, phase, out, calls>>

\* DEQUE_FREE is entered: its loop runs in the steps FreeIter and FreeExit.
FreeCall(d) ==
  /\ Ready
  /\ pc' = "free"
  /\ op' = [name |-> "free", d |-> d, nd |-> FALSE]
  /\ chain0' = Chain(d)
  /\ freed' = <<>>
  /\ ret' = Void
  /\ UNCHANGED <<deque, mem, fault, held, abs, script, phase, out, calls>>

\* The machine state DEQUE_FREE is in, inside its loop.
InFree == [dq |-> deque[op.d], mem |-> mem, fault |-> fault, freed |-> freed, ret |-> ret]

FreeIter ==
  /\ pc = "free" /\ fault = "none"
  /\ DEQUE_FREE_TEST(InFree)
  /\ LET t == DEQUE_FREE_BODY(InFree, NoUB)
     IN /\ deque' = [deque EXCEPT ![op.d] = t.dq]
        /\ mem' = t.mem
        /\ fault' = t.fault
        /\ freed' = t.freed
  /\ UNCHANGED <<pc, held, op, chain0, ret, abs, script, phase, out, calls>>

FreeExit ==
  /\ pc = "free" /\ fault = "none"
  /\ ~DEQUE_FREE_TEST(InFree)
  /\ LET t == DEQUE_FREE_EXIT(InFree)
     IN /\ deque' = [deque EXCEPT ![op.d] = t.dq]
        /\ fault' = t.fault
  /\ pc' = "idle"
  /\ abs' = [abs EXCEPT ![op.d] = <<>>]
  /\ UNCHANGED <<mem, held, op, chain0, freed, ret, script, phase, out, calls>>

\* A program that owns one deque, A.
Next ==
  \/ ReInit("A")
  \/ Clear("A")
  \/ \E v \in Values : Push("A", v)
  \/ \E v \in Values : AppendBack("A", v)
  \/ Pop("A")
  \/ PopNode("A")
  \/ PushNode("A")
  \/ AppendNode("A")
  \/ PeekHead("A")
  \/ PeekTail("A")
  \/ FreeCall("A")
  \/ FreeIter
  \/ FreeExit

Spec == Init /\ [][Next]_vars

\* ------------------------------------------------------------- the claims
\* The data of the nodes of d's chain, in order.
ChainData(d) == LET c == Chain(d) IN [i \in 1..Len(c) |-> mem[c[i]].data]

\* C1: between operations, in every state reached from DEQUE_DEFAULT by
\* DEQUE_INIT, DEQUE_PUSH, DEQUE_APPEND, DEQUE_POP (size > 0), DEQUE_CLEAR and
\* DEQUE_FREE (and the node-level macros), size == 0 iff first == NULL iff
\* last == NULL, and a deque of size 1 has first == last.
C1_EmptinessAgrees ==
  pc = "idle" =>
    \A d \in Deques :
      /\ deque[d].size = 0 <=> deque[d].first = NULL
      /\ deque[d].first = NULL <=> deque[d].last = NULL
      /\ deque[d].size = 1 => deque[d].first = deque[d].last

\* A deque of two nodes was popped: one node is left, first and last on it.
C1_Witness ==
  /\ pc = "idle" /\ op.name = "pop"
  /\ deque["A"].size = 1
  /\ deque["A"].first \in Nodes
  /\ deque["A"].first = deque["A"].last

\* C2: between operations, a deque of size > 0 reaches NULL from first after
\* exactly size steps along next, not earlier, and the node before NULL is last.
C2_ChainLength ==
  pc = "idle" =>
    \A d \in Deques :
      deque[d].size > 0 =>
        /\ \A k \in 0..(deque[d].size - 1) : Valid(mem, Follow(mem, deque[d].first, k))
        /\ Follow(mem, deque[d].first, deque[d].size) = NULL
        /\ Follow(mem, deque[d].first, deque[d].size - 1) = deque[d].last
        /\ mem[deque[d].last].next = NULL

\* A chain of three nodes built by appending, pushing and popping.
C2_Witness ==
  /\ pc = "idle" /\ op.name = "append"
  /\ deque["A"].size = 3
  /\ Len(Chain("A")) = 3
  /\ Chain("A")[3] = deque["A"].last

\* C3: the deque refines the abstract sequence abs (push prepends, append adds
\* at the end, pop drops the head): between operations the data read along the
\* chain is abs, DEQUE_SIZE is its length, DEQUE_HEAD its first element and
\* DEQUE_TAIL its last.
C3_RefinesSequence ==
  pc = "idle" =>
    \A d \in Deques :
      /\ ChainData(d) = abs[d]
      /\ DEQUE_SIZE(Mk(d)) = Len(abs[d])
      /\ abs[d] # <<>> =>
           /\ DEQUE_HEAD(Mk(d), NoUB) = abs[d][1]
           /\ DEQUE_TAIL(Mk(d), NoUB) = abs[d][Len(abs[d])]

\* push_front(1); append_back(2); push_front(0) has run: the deque reads 0, 1, 2.
C3_Witness ==
  /\ pc = "idle" /\ op.name = "push"
  /\ abs["A"] = <<0, 1, 2>>
  /\ ChainData("A") = <<0, 1, 2>>
  /\ mem[deque["A"].last].data = 2

\* The first node of the deque a step operates on, before the step.
OldFirst == deque[op'.d].first

\* C6 as stated: DEQUE_POP on a deque of size > 0 sets first to the successor
\* of the old first node, decrements size by 1, returns the detached node's
\* value to the caller and frees the detached node.
C6_PopReturnsValue ==
  [][op'.name = "pop" =>
       /\ Valid(mem, OldFirst)
       /\ deque'[op'.d].first = mem[OldFirst].next
       /\ deque'[op'.d].size = deque[op'.d].size - 1
       /\ ret' = mem[OldFirst].data
       /\ freed' = <<OldFirst>>
       /\ ~mem'[OldFirst].alloc]_vars

\* C6 amended: DEQUE_POP on a deque of size > 0 sets first to the successor of
\* the old first node, decrements size by 1 and frees the detached node, and
\* no other node; being a statement macro it yields no value (the caller reads
\* the value with DEQUE_HEAD before the call).
C6_PopDetachesAndFrees ==
  [][op'.name = "pop" =>
       /\ Valid(mem, OldFirst)
       /\ deque'[op'.d].first = mem[OldFirst].next
       /\ deque'[op'.d].size = deque[op'.d].size - 1
       /\ ret' = Void
       /\ freed' = <<OldFirst>>
       /\ ~mem'[OldFirst].alloc
       /\ \A n \in Nodes \ {OldFirst} : mem'[n] = mem[n]]_vars

\* A pop of a longer deque has run: its node is freed, nodes are left.
C6_Witness ==
  /\ pc = "idle" /\ op.name = "pop"
  /\ Len(freed) = 1
  /\ ~mem[freed[1]].alloc
  /\ deque["A"].size = 2
  /\ ret = Void

\* C7: DEQUE_POP or DEQUE_POP_NODE on a deque of size 1 leaves the deque as
\* DEQUE_INIT leaves it: first == NULL, last == NULL, size == 0.
C7_PopLastResets ==
  [][(op'.name \in {"pop", "pop_node"} /\ deque[op'.d].size = 1) =>
       /\ deque'[op'.d] = DEQUE_INIT(Mk(op'.d)).dq
       /\ deque'[op'.d] = [first |-> NULL, last |-> NULL, size |-> 0]]_vars

\* The only node of a deque was detached with DEQUE_POP_NODE: the caller holds
\* it, live, and the deque is empty.
C7_Witness ==
  /\ pc = "idle" /\ op.name = "pop_node"
  /\ Valid(mem, held)
  /\ mem[held].next = NULL
  /\ deque["A"].size = 0
  /\ deque["A"].last = NULL

\* C10: DEQUE_FREE walks the chain from first: at every point of its loop the
\* nodes freed so far followed by the nodes still chained are the chain it was
\* called on, so at its end it has passed each node of that chain to NODE_FREE
\* exactly once, in order, and no other node; all of them are released and the
\* deque is as DEQUE_INIT leaves it.
C10_FreeReleasesChain ==
  op.name = "free" =>
    /\ freed \o Chain(op.d) = chain0
    /\ \A i \in 1..Len(freed) : ~mem[freed[i]].alloc
    /\ Cardinality({freed[i] : i \in 1..Len(freed)}) = Len(freed)
    /\ pc = "idle" =>
         /\ freed = chain0
         /\ deque[op.d] = DEQUE_INIT(Mk(op.d)).dq
         /\ deque[op.d] = [first |-> NULL, last |-> NULL, size |-> 0]

\* DEQUE_FREE has returned from a deque of three nodes.
C10_Witness ==
  /\ pc = "idle" /\ op.name = "free"
  /\ Len(chain0) = 3
  /\ Len(freed) = 3

\* No node occurs twice in the sequence q.
Distinct(q) == Cardinality({q[i] : i \in 1..Len(q)}) = Len(q)

\* C11: DEQUE_FREE called on a deque of size 0 returns at once: it passes no
\* node to NODE_FREE, changes no node and leaves first, last and size as they
\* were, which is as DEQUE_INIT leaves them. A DEQUE_FREE called right after a
\* DEQUE_FREE has returned is such a call: the first call left the deque empty
\* and freed no node twice, and the second call finds nothing to free.
C11_FreeOfEmpty ==
  [][/\ (pc = "free" /\ freed = <<>> /\ deque[op.d].size = 0) =>
          /\ pc' = "idle"
          /\ freed' = <<>>
          /\ mem' = mem
          /\ deque' = deque
          /\ deque'[op.d] = DEQUE_INIT(Mk(op.d)).dq
     /\ (pc = "idle" /\ op.name = "free" /\ pc' = "free" /\ op'.d = op.d) =>
          /\ deque[op.d] = [first |-> NULL, last |-> NULL, size |-> 0]
          /\ Distinct(freed)
          /\ \A i \in 1..Len(freed) : ~mem[freed[i]].alloc
          /\ deque'[op.d].size = 0
          /\ chain0' = <<>>
          /\ freed' = <<>>]_vars

\* DEQUE_FREE has returned from an empty deque while the caller holds a live
\* node: nothing was freed.
C11_Witness ==
  /\ pc = "idle" /\ op.name = "free"
  /\ chain0 = <<>> /\ freed = <<>>
  /\ deque["A"] = DEQUE_DEFAULT
  /\ Valid(mem, held)

\* C12: DEQUE_CLEAR sets first and last to NULL and size to 0 and passes no
\* node to NODE_FREE: the set of allocated nodes and the data and next of every
\* node are after the call what they were before it, so the nodes of the old
\* chain are still allocated, and no node is reachable from the deque.
C12_ClearKeepsNodes ==
  [][op'.name = "clear" =>
       /\ deque'[op'.d] = [first |-> NULL, last |-> NULL, size |-> 0]
       /\ freed' = <<>>
       /\ mem' = mem
       /\ \A i \in 1..Len(Chain(op'.d)) : mem'[Chain(op'.d)[i]].alloc
       /\ Walk(mem', deque'[op'.d].first, MaxNodes + 1) = <<>>]_vars

\* DEQUE_CLEAR has run on a deque of two or more nodes, none of them held by
\* the caller: they are allocated and linked, and the deque is empty.
C12_Witness ==
  /\ pc = "idle" /\ op.name = "clear"
  /\ deque["A"] = DEQUE_DEFAULT
  /\ held = NULL
  /\ \E n \in Nodes : Valid(mem, n) /\ Valid(mem, mem[n].next)

\* C16: DEQUE_PUSH(v) and DEQUE_APPEND(v) on a deque of size 0 end in the same
\* state: first and last point to the node malloc returned, its data is v, its
\* next is NULL and size is 1; applied to the same deque with the same value
\* and the same malloc result the two macros yield equal states.
C16_FirstInsertion ==
  [][(op'.name \in {"push", "append"} /\ deque[op'.d].size = 0) =>
       LET n == deque'[op'.d].first
           v == IF op'.name = "push" THEN abs'[op'.d][1]
                ELSE abs'[op'.d][Len(abs'[op'.d])]
       IN /\ n \in Fresh
          /\ deque'[op'.d] = [first |-> n, last |-> n, size |-> 1]
          /\ mem'[n] = [alloc |-> TRUE, data |-> v, next |-> NULL]
          /\ \A w \in Values, r \in Fresh :
               DEQUE_PUSH(Mk(op'.d), w, r, NoUB) = DEQUE_APPEND(Mk(op'.d), w, r, NoUB)]_vars

\* DEQUE_APPEND(1) has run on the empty deque.
C16_Witness ==
  /\ pc = "idle" /\ op.name = "append"
  /\ deque["A"].size = 1
  /\ deque["A"].first = deque["A"].last
  /\ Valid(mem, deque["A"].first)
  /\ mem[deque["A"].first] = [alloc |-> TRUE, data |-> 1, next |-> NULL]

\* C17: DEQUE_PUSH on a deque of size > 0 stores the old first in the next of
\* the node malloc returned, makes that node first and leaves last and every
\* node that existed before unchanged; DEQUE_APPEND on a deque of size > 0
\* leaves first unchanged and, of the nodes that existed before, changes only
\* the old last node, and of it only next, which is set to the new node.
C17_InsertionFrame ==
  [][/\ (op'.name = "push" /\ deque[op'.d].size > 0) =>
          LET n == deque'[op'.d].first
          IN /\ n \in Fresh
             /\ mem'[n].next = OldFirst
             /\ deque'[op'.d].last = deque[op'.d].last
             /\ \A k \in Nodes \ {n} : mem'[k] = mem[k]
     /\ (op'.name = "append" /\ deque[op'.d].size > 0) =>
          LET n == deque'[op'.d].last
              l == deque[op'.d].last
          IN /\ n \in Fresh
             /\ deque'[op'.d].first = OldFirst
             /\ mem'[l] = [mem[l] EXCEPT !.next = n]
             /\ \A k \in Nodes \ {n, l} : mem'[k] = mem[k]]_vars

\* DEQUE_PUSH has run on a deque of two nodes: the new first node links to the
\* old first, and last is the third node of the chain.
C17_Witness ==
  /\ pc = "idle" /\ op.name = "push"
  /\ deque["A"].size = 3
  /\ Len(Chain("A")) = 3
  /\ mem[deque["A"].first].next = Chain("A")[2]
  /\ deque["A"].last = Chain("A")[3]
  /\ deque["A"].last # deque["A"].first

\* A pointer that is NULL or points to a live node.
Sound(p) == p = NULL \/ Valid(mem, p)

\* C19: in every state of every run of DEQUE_INIT, DEQUE_PUSH, DEQUE_APPEND,
\* DEQUE_POP (size > 0) and DEQUE_FREE (and of the other macros called within
\* their contract), also between the passes of DEQUE_FREE's loop, no access
\* has gone to a dead node and NODE_FREE has not been applied to a dead node
\* (either would have raised fault); the nodes the running operation passed to
\* NODE_FREE are pairwise different and none is NULL (DEQUE_POP passes one,
\* DEQUE_FREE one per node of the chain); and between operations first, last
\* and the next of every node reachable from first are NULL or a live node.
C19_NoUseAfterFree ==
  /\ fault = "none"
  /\ Distinct(freed)
  /\ \A i \in 1..Len(freed) : freed[i] \in Nodes /\ ~mem[freed[i]].alloc
  /\ pc = "idle" =>
       /\ op.name = "pop" => Len(freed) = 1
       /\ op.name = "free" => Len(freed) = Len(chain0)
       /\ \A d \in Deques :
            /\ Sound(deque[d].first)
            /\ Sound(deque[d].last)
            /\ \A i \in 1..Len(Chain(d)) : Sound(mem[Chain(d)[i]].next)

\* Inside DEQUE_FREE's loop, after the pass that freed the last node of a chain
\* of two or more: last still points to that freed node, and nothing has read
\* through it.
C19_Witness ==
  /\ pc = "free" /\ fault = "none"
  /\ Len(freed) >= 2
  /\ deque[op.d].first = NULL
  /\ deque[op.d].last = freed[Len(freed)]
  /\ ~mem[deque[op.d].last].alloc

\* ------------------------------------------------------------- scripted runs
\* A scripted run performs the insertions of script on the empty deque A, then
\* drains A: while DEQUE_SIZE is not 0 it reads DEQUE_HEAD and calls DEQUE_POP.
Cmds == [kind : {"push", "append"}, v : Values]

Scripts == UNION {[1..n -> Cmds] : n \in 0..MaxNodes}

ScriptInit ==
  /\ deque = [d \in Deques |-> DEQUE_DEFAULT]
  /\ mem = [n \in Nodes |-> FreeCell]
  /\ fault = "none"
  /\ pc = "idle"
  /\ held = NULL
  /\ op = [name |-> "default", d |-> "A", nd |-> FALSE]
  /\ chain0 = <<>>
  /\ freed = <<>>
  /\ ret = Void
  /\ abs = [d \in Deques |-> <<>>]
  /\ script \in Scripts
  /\ phase = "fill"
  /\ out = <<>>
  /\ calls = NoCalls

\* How often n occurs in the sequence q.
Count(q, n) == Cardinality({i \in 1..Len(q) : q[i] = n})

\* The insertions performed so far.
Inserted == Len(abs["A"])

ScriptPush ==
  /\ phase = "fill" /\ fault = "none"
  /\ Inserted < Len(script)
  /\ script[Inserted + 1].kind = "push"
  /\ LET v == script[Inserted + 1].v
     IN \E r \in Fresh :
          /\ Commit("A", "push", FALSE, DEQUE_PUSH(Mk("A"), v, r, NoUB), <<v>> \o abs["A"])
          /\ calls' = [calls EXCEPT !.alloc[r] = @ + 1]
  /\ UNCHANGED <<pc, held, script, phase, out>>

ScriptAppend ==
  /\ phase = "fill" /\ fault = "none"
  /\ Inserted < Len(script)
  /\ script[Inserted + 1].kind = "append"
  /\ LET v == script[Inserted + 1].v
     IN \E r \in Fresh :
          /\ Commit("A", "append", FALSE, DEQUE_APPEND(Mk("A"), v, r, NoUB), Append(abs["A"], v))
          /\ calls' = [calls EXCEPT !.alloc[r] = @ + 1]
  /\ UNCHANGED <<pc, held, script, phase, out>>

\* Every insertion is done: the drain starts. abs keeps the inserted sequence.
ScriptTurn ==
  /\ phase = "fill" /\ fault = "none"
  /\ Inserted = Len(script)
  /\ phase' = "drain"
  /\ UNCHANGED <<deque, mem, fault, pc, held, op, chain0, freed, ret, abs, script, out, calls>>

\* if (DEQUE_SIZE(d)) { val = DEQUE_HEAD(d); DEQUE_POP(d, T); }
ScriptDrain ==
  /\ phase = "drain" /\ fault = "none"
  /\ DEQUE_SIZE(Mk("A")) # 0
  /\ LET h == ReadHead(Mk("A"), NoUB)
     IN /\ out' = Append(out, h.ret)
        /\ \E nd \in BOOLEAN :
             Commit("A", "pop", nd, DEQUE_POP([h EXCEPT !.ret = Void], nd, NoUB), abs["A"])
  /\ calls' = [calls EXCEPT !.free = [n \in Nodes |-> @[n] + Count(freed', n)]]
  /\ UNCHANGED <<pc, held, script, phase>>

ScriptDone ==
  /\ phase = "drain" /\ fault = "none"
  /\ DEQUE_SIZE(Mk("A")) = 0
  /\ phase' = "done"
  /\ UNCHANGED <<deque, mem, fault, pc, held, op, chain0, freed, ret, abs, script, out, calls>>

ScriptNext == ScriptPush \/ ScriptAppend \/ ScriptTurn \/ ScriptDrain \/ ScriptDone

SpecScript == ScriptInit /\ [][ScriptNext]_vars

\* The values a script inserts, in the order of insertion.
ScriptValues == [i \in 1..Len(script) |-> script[i].v]

Reverse(q) == [i \in 1..Len(q) |-> q[Len(q) + 1 - i]]

OnlyKind(k) == \A i \in 1..Len(script) : script[i].kind = k

\* C4: FIFO. After values were inserted into an empty deque with DEQUE_APPEND
\* only, reading DEQUE_HEAD and calling DEQUE_POP until size == 0 yields the
\* values in the order of their insertion.
C4_Fifo ==
  (phase = "done" /\ OnlyKind("append")) => out = ScriptValues

\* Three values, not all equal, were appended and drained.
C4_Witness ==
  /\ phase = "done" /\ OnlyKind("append")
  /\ Len(script) = 3
  /\ script[1].v # script[3].v
  /\ Len(out) = 3

\* C5: LIFO. After values were inserted into an empty deque with DEQUE_PUSH
\* only, reading DEQUE_HEAD and calling DEQUE_POP until size == 0 yields the
\* values in the reverse of the order of their insertion, and the deque is
\* then empty.
C5_Lifo ==
  (phase = "done" /\ OnlyKind("push")) =>
    /\ out = Reverse(ScriptValues)
    /\ deque["A"] = DEQUE_DEFAULT

\* Three values, not all equal, were pushed and drained.
C5_Witness ==
  /\ phase = "done" /\ OnlyKind("push")
  /\ Len(script) = 3
  /\ script[1].v # script[3].v
  /\ Len(out) = 3

\* C13: after every sequence of DEQUE_PUSH / DEQUE_APPEND calls on an empty
\* deque (every prefix of every script), DEQUE_SIZE is the number of insertions
\* performed, and the walk along NODE_NEXT from first meets that many nodes,
\* all different, the last of them being the node last points to.
C13_SizeCountsInsertions ==
  phase = "fill" =>
    LET c == Chain("A") IN
      /\ DEQUE_SIZE(Mk("A")) = Inserted
      /\ Len(c) = Inserted
      /\ Distinct(c)
      /\ Inserted > 0 => c[Inserted] = DEQUE_LAST(Mk("A"))
      /\ Inserted = 0 => DEQUE_LAST(Mk("A")) = NULL

\* A push, an append and a push have run on the empty deque.
C13_Witness ==
  /\ phase = "fill" /\ Len(script) = 3 /\ Inserted = 3
  /\ script[1].kind = "push" /\ script[2].kind = "append" /\ script[3].kind = "push"
  /\ deque["A"].size = 3
  /\ Len(Chain("A")) = 3

\* C14: round trip. After N insertions (any mix of DEQUE_PUSH and
\* DEQUE_APPEND) into the empty deque and N calls of DEQUE_POP, first and last
\* are NULL and size is 0, NODE_ALLOC has returned N nodes, each of them was
\* passed to NODE_FREE exactly once, and no node is allocated.
C14_RoundTrip ==
  phase = "done" =>
    /\ deque["A"] = [first |-> NULL, last |-> NULL, size |-> 0]
    /\ Len(out) = Len(script)
    /\ Cardinality({n \in Nodes : calls.alloc[n] = 1}) = Len(script)
    /\ \A n \in Nodes : calls.alloc[n] <= 1 /\ calls.free[n] = calls.alloc[n]
    /\ \A n \in Nodes : ~mem[n].alloc

\* A push, an append and a push were drained by three calls of DEQUE_POP.
C14_Witness ==
  /\ phase = "done" /\ Len(script) = 3
  /\ script[1].kind = "push" /\ script[2].kind = "append" /\ script[3].kind = "push"
  /\ Len(out) = 3
  /\ \A n \in Nodes : calls.free[n] = 1

\* ------------------------------------------------------------- two deques
\* A program that owns two deques, A and B, and calls the public operations on
\* either of them, one call at a time.
TwoNext ==
  \/ \E d \in Deques : ReInit(d)
  \/ \E d \in Deques : Clear(d)
  \/ \E d \in Deques, v \in Values : Push(d, v)
  \/ \E d \in Deques, v \in Values : AppendBack(d, v)
  \/ \E d \in Deques : Pop(d)
  \/ \E d \in Deques : FreeCall(d)
  \/ FreeIter
  \/ FreeExit

SpecTwo == Init /\ [][TwoNext]_vars

\* The set of the nodes of d's chain.
ChainSet(d) == {Chain(d)[i] : i \in 1..Len(Chain(d))}

\* C15: in every state reached by DEQUE_INIT, DEQUE_PUSH, DEQUE_APPEND,
\* DEQUE_POP (size > 0), DEQUE_CLEAR and DEQUE_FREE called on two deques, also
\* inside DEQUE_FREE's loop, no node occurs twice in the chain of a deque (so
\* the chain has no cycle) and no node is in the chains of both deques;
\* between operations each chain ends in NULL.
C15_NoSharingNoCycles ==
  /\ \A d \in Deques : Distinct(Chain(d))
  /\ ChainSet("A") \cap ChainSet("B") = {}
  /\ pc = "idle" =>
       \A d \in Deques : Follow(mem, deque[d].first, Len(Chain(d))) = NULL

\* Both deques hold nodes after a DEQUE_PUSH on B, A one and B two.
C15_Witness ==
  /\ pc = "idle" /\ op.name = "push" /\ op.d = "B"
  /\ Len(Chain("A")) = 1
  /\ Len(Chain("B")) = 2
  /\ deque["A"].first # deque["B"].last

\* ------------------------------------------------------------- node transfer
\* A program that fills and pops two deques and moves nodes from A to B:
\*   n = DEQUE_FIRST(&A); DEQUE_POP_NODE(&A);
\*   DEQUE_PUSH_NODE(&B, n);   or   DEQUE_APPEND_NODE(&B, n);
MoveNext ==
  \/ \E d \in Deques, v \in Values : Push(d, v)
  \/ \E d \in Deques, v \in Values : AppendBack(d, v)
  \/ \E d \in Deques : Pop(d)
  \/ PopNode("A")
  \/ PushNode("B")
  \/ AppendNode("B")

SpecMove == Init /\ [][MoveNext]_vars

\* The size / first / last / chain-length invariants of deque d.
WellFormed(d) ==
  /\ deque[d].size = Len(Chain(d))
  /\ Distinct(Chain(d))
  /\ deque[d].size = 0 <=> deque[d].first = NULL
  /\ deque[d].first = NULL <=> deque[d].last = NULL
  /\ deque[d].size > 0 =>
       /\ Chain(d)[deque[d].size] = deque[d].last
       /\ mem[deque[d].last].next = NULL

\* The allocated nodes.
Allocated == {n \in Nodes : mem[n].alloc}

\* C20: DEQUE_POP_NODE detaches the first node and neither frees it nor
\* changes a field of it, so its next still points to the new first node of
\* the source deque; DEQUE_PUSH_NODE and DEQUE_APPEND_NODE store to the next
\* of the node they insert whatever it held (the old first of the target, or
\* NULL), and change no other field but, on append, the next of the old last
\* node. So after n = DEQUE_FIRST(A); DEQUE_POP_NODE(A) and after the
\* DEQUE_PUSH_NODE(B, n) or DEQUE_APPEND_NODE(B, n) that follows, A and B are
\* well-formed, their chains share no node, the node held is in neither, and
\* no node was allocated or freed.
C20_NodeTransfer ==
  [][/\ op'.name = "pop_node" =>
          /\ held' = OldFirst
          /\ mem' = mem
          /\ freed' = <<>>
          /\ Valid(mem', held')
          /\ mem'[held'].next = deque'[op'.d].first
     /\ op'.name = "push_node" =>
          /\ mem'[held] = [mem[held] EXCEPT !.next = deque[op'.d].first]
          /\ \A n \in Nodes \ {held} : mem'[n] = mem[n]
          /\ deque'[op'.d].first = held
     /\ op'.name = "append_node" =>
          /\ mem'[held] = [mem[held] EXCEPT !.next = NULL]
          /\ \A n \in Nodes \ {held, deque[op'.d].last} : mem'[n] = mem[n]
          /\ deque[op'.d].last # NULL =>
               mem'[deque[op'.d].last] = [mem[deque[op'.d].last] EXCEPT !.next = held]
          /\ deque'[op'.d].last = held
     /\ op'.name \in {"pop_node", "push_node", "append_node"} =>
          /\ Allocated' = Allocated
          /\ freed' = <<>>
          /\ WellFormed("A")' /\ WellFormed("B")'
          /\ (ChainSet("A") \cap ChainSet("B"))' = {}
          /\ (held \notin ChainSet("A") \cup ChainSet("B"))']_vars

\* A node detached from A was appended to the non-empty B: it is B's last
\* node, its next is NULL, and A holds a node.
C20_Witness ==
  /\ pc = "idle" /\ op.name = "append_node" /\ op.d = "B"
  /\ held = NULL
  /\ Len(Chain("A")) = 1
  /\ Len(Chain("B")) = 2
  /\ mem[deque["B"].last].next = NULL
  /\ deque["B"].size = 2 /\ deque["A"].size = 1

\* ------------------------------------------------------------- termination
\* A program that calls the public operations on A and, being a running
\* sequential program, goes on with the next pass of DEQUE_FREE's loop, or
\* with its exit, whenever it stands inside DEQUE_FREE.
LiveNext ==
  \/ ReInit("A")
  \/ Clear("A")
  \/ \E v \in Values : Push("A", v)
  \/ \E v \in Values : AppendBack("A", v)
  \/ Pop("A")
  \/ FreeCall("A")
  \/ FreeIter
  \/ FreeExit

SpecLive == Init /\ [][LiveNext]_vars /\ WF_vars(FreeIter) /\ WF_vars(FreeExit)

\* C18: every DEQUE_FREE that is entered returns, having made as many passes
\* through its loop (one NODE_FREE each) as the chain had nodes at the call;
\* DEQUE_INIT, DEQUE_PUSH, DEQUE_APPEND, DEQUE_POP and DEQUE_CLEAR hold no
\* loop: each is over, in defined behaviour, in the one step that runs it,
\* whatever the size.
C18_OperationsComplete ==
  /\ (pc = "free") ~> (pc = "idle" /\ op.name = "free" /\ Len(freed) = Len(chain0))
  /\ [][op'.name \in {"init", "push", "append", "pop", "clear"} =>
          (pc' = "idle" /\ fault' = "none")]_vars

\* DEQUE_FREE has returned after two passes from a deque of two nodes, while a
\* node that DEQUE_CLEAR or DEQUE_INIT left behind is still allocated.
C18_Witness ==
  /\ pc = "idle" /\ op.name = "free"
  /\ Len(chain0) = 2
  /\ Len(freed) = 2
  /\ \E n \in Nodes : Valid(mem, n)

\* ------------------------------------------------------------- faults
\* A program that pushes, appends, pops and frees, where malloc may fail and
\* the caller may break the contract of the pop and peek macros. An execution
\* that has left defined behaviour is followed no further.
PushNoMem(d, v) ==
  /\ Ready
  /\ \E u \in StoreOutcomes :
       Commit(d, "push_nomem", FALSE, DEQUE_PUSH(Mk(d), v, NULL, u), abs[d])
  /\ UNCHANGED <<pc, held, script, phase, out, calls>>

AppendNoMem(d, v) ==
  /\ Ready
  /\ \E u \in StoreOutcomes :
       Commit(d, "append_nomem", FALSE, DEQUE_APPEND(Mk(d), v, NULL, u), abs[d])
  /\ UNCHANGED <<pc, held, script, phase, out, calls>>

PopEmpty(d) ==
  /\ Ready
  /\ deque[d].size = 0
  /\ \E nd \in BOOLEAN, u \in NextOutcomes :
       Commit(d, "pop_empty", nd, DEQUE_POP(Mk(d), nd, u), abs[d])
  /\ UNCHANGED <<pc, held, script, phase, out, calls>>

PopNodeEmpty(d) ==
  /\ Ready
  /\ deque[d].size = 0
  /\ \E nd \in BOOLEAN, u \in NextOutcomes :
       Commit(d, "pop_node_empty", nd, DEQUE_POP_NODE(Mk(d), nd, u), abs[d])
  /\ UNCHANGED <<pc, held, script, phase, out, calls>>

PeekHeadEmpty(d) ==
  /\ Ready
  /\ deque[d].size = 0
  /\ \E u \in DataOutcomes : Commit(d, "head_empty", FALSE, ReadHead(Mk(d), u), abs[d])
  /\ UNCHANGED <<pc, held, script, phase, out, calls>>

PeekTailEmpty(d) ==
  /\ Ready
  /\ deque[d].size = 0
  /\ \E u \in DataOutcomes : Commit(d, "tail_empty", FALSE, ReadTail(Mk(d), u), abs[d])
  /\ UNCHANGED <<pc, held, script, phase, out, calls>>

FaultNext ==
  \/ \E v \in Values : Push("A", v)
  \/ \E v \in Values : AppendBack("A", v)
  \/ Pop("A")
  \/ FreeCall("A")
  \/ FreeIter
  \/ FreeExit
  \/ PeekHeadEmpty("A")
  \/ PeekTailEmpty("A")
  \/ PopEmpty("A")
  \/ PopNodeEmpty("A")
  \/ \E v \in Values : PushNoMem("A", v)
  \/ \E v \in Values : AppendNoMem("A", v)

SpecFault == Init /\ [][FaultNext]_vars

\* C8: when malloc returns NULL inside DEQUE_PUSH or DEQUE_APPEND the caller
\* gets a recoverable error: the program stays in defined behaviour, and the
\* deque and every node are as before the call.
C8_AllocFailureNoEffect ==
  [][op'.name \in {"push_nomem", "append_nomem"} =>
       /\ fault' = "none"
       /\ deque' = deque
       /\ mem' = mem]_vars

\* C9 as stated: DEQUE_POP, DEQUE_POP_NODE, DEQUE_HEAD and DEQUE_TAIL on an
\* empty deque each end in an assertion failure, before a deque field is
\* modified, a node dereferenced or a node freed.
C9_EmptyAsserts ==
  [][op'.name \in {"pop_empty", "pop_node_empty", "head_empty", "tail_empty"} =>
       /\ fault' = "assert"
       /\ deque' = deque
       /\ mem' = mem
       /\ freed' = <<>>]_vars

\* C9 amended: DEQUE_POP and DEQUE_POP_NODE on an empty deque, at a call site
\* compiled without NDEBUG, end in an assertion failure before a deque field is
\* modified, a node dereferenced or a node freed. DEQUE_HEAD and DEQUE_TAIL
\* hold no assertion: on an empty deque they read through the NULL first / last
\* pointer, which is undefined behaviour (a trap, or a junk value yielded), and
\* modify no deque field and free no node; so do the pop macros under NDEBUG,
\* where once past the NULL read they free no node.
C9_EmptyPopAssertsPeekDerefs ==
  [][/\ (op'.name \in {"pop_empty", "pop_node_empty"} /\ ~op'.nd) =>
          /\ fault' = "assert"
          /\ deque' = deque
          /\ mem' = mem
          /\ freed' = <<>>
          /\ ret' = Void
     /\ op'.name \in {"head_empty", "tail_empty"} =>
          /\ fault' \in {"segv", "ub"}
          /\ fault' = "segv" => ret' = Void
          /\ deque' = deque
          /\ mem' = mem
          /\ freed' = <<>>
     /\ (op'.name \in {"pop_empty", "pop_node_empty"} /\ op'.nd) =>
          /\ fault' \in {"segv", "ub"}
          /\ mem' = mem
          /\ freed' = <<>>]_vars

\* DEQUE_POP was called on an empty deque and stopped in its assert.
C9_Witness ==
  /\ op.name = "pop_empty" /\ ~op.nd
  /\ fault = "assert"
  /\ deque[op.d] = DEQUE_DEFAULT
  /\ freed = <<>>

=============================================================================
